---- MODULE Spec2Model ----
(***************************************************************************)
(* A model of the knowledge-base player of "01 - Knowledge/minesweeper"    *)
(* (classes Minesweeper, Sentence, MinesweeperAI) and of the board         *)
(* functions of "00 - Search/tictactoe".                                   *)
(*                                                                         *)
(* Cells are pairs <<i, j>> with 0-based row i and column j, as in the     *)
(* source.  A Sentence object is a record [cells, count]; the list         *)
(* MinesweeperAI.knowledge is a sequence of such records, in list order.   *)
(* list.remove(x) removes the first entry that is == x (Sentence.__eq__),  *)
(* which is how the model removes, too.                                    *)
(***************************************************************************)
EXTENDS Integers, Sequences, FiniteSets, TLC

\* Bounds of the model.
Height == 2
Width == 3
MaxMines == 1
MaxObs == 3
MaxCalls == 2
MaxCount == 1
MaxSentenceCells == 5
MaxSentenceCount == 2

VARIABLES
    height, width,      \* MinesweeperAI.height, MinesweeperAI.width
    moves_made,         \* MinesweeperAI.moves_made
    mines,              \* MinesweeperAI.mines
    safes,              \* MinesweeperAI.safes
    knowledge,          \* MinesweeperAI.knowledge
    pc,                 \* position of the caller inside add_knowledge
    last_call,          \* the last method called on the AI, with its arguments
    ret,                \* what the last make_safe_move returned
    calls,              \* number of calls made so far
    pass_start,         \* the measures of the knowledge base when the current
                        \* pass of the while loop began
    returned,           \* how often make_safe_move has returned each cell
    game_mines,         \* Minesweeper.mines: where the mines really are
    board,              \* the tic-tac-toe board
    sentence_1, sentence_2,     \* two Sentence objects
    new_sentence, is_subset     \* what infer_new_sentance and is_subset gave for
                                \* them: <<>> before the call, <<result>> after

gridVars == <<height, width, game_mines>>
kbVars == <<moves_made, mines, safes, knowledge>>
callVars == <<pc, last_call, ret, calls, pass_start, returned>>
tttVars == <<board>>
senVars == <<sentence_1, sentence_2, new_sentence, is_subset>>
vars == <<height, width, game_mines, moves_made, mines, safes, knowledge,
          pc, last_call, ret, calls, pass_start, returned,
          board, sentence_1, sentence_2, new_sentence, is_subset>>

----------------------------------------------------------------------------
(* Helpers *)

Max(a, b) == IF a >= b THEN a ELSE b

Min(a, b) == IF a <= b THEN a ELSE b

\* range(lo, hi) of Python
Range(lo, hi) == lo .. (hi - 1)

\* None, among the strings of the tic-tac-toe board
None == "None"

\* None, as make_safe_move returns it in place of a cell
NoMove == <<>>

NoCell == <<-1, -1>>

Call(op, cell, count) == [op |-> op, cell |-> cell, count |-> count]

AllCells == Range(0, height) \X Range(0, width)

----------------------------------------------------------------------------
(* class Minesweeper *)

\* Minesweeper.nearby_mines
NearbyMines(cell) ==
    Cardinality({c \in Range(cell[1] - 1, cell[1] + 2) \X Range(cell[2] - 1, cell[2] + 2) :
                    /\ c # cell
                    /\ 0 <= c[1] /\ c[1] < height /\ 0 <= c[2] /\ c[2] < width
                    /\ c \in game_mines})

----------------------------------------------------------------------------
(* class Sentence *)

\* Sentence.__init__
Sentence(cells, count) == [cells |-> cells, count |-> count]

\* Sentence.known_mines
KnownMines(s) == IF Cardinality(s.cells) = s.count THEN s.cells ELSE {}

\* Sentence.known_safes
KnownSafes(s) == IF s.count = 0 THEN s.cells ELSE {}

\* mark_mine lowering the count whether or not the cell is in the sentence
SentenceMarkMineAlways(s, cell) ==
    [cells |-> s.cells \ {cell}, count |-> s.count - 1]

\* Sentence.mark_mine
SentenceMarkMine(s, cell) ==
    IF cell \in s.cells
    THEN [cells |-> s.cells \ {cell}, count |-> s.count - 1]
    ELSE s

\* Sentence.mark_safe
SentenceMarkSafe(s, cell) ==
    IF cell \in s.cells
    THEN [cells |-> s.cells \ {cell}, count |-> s.count]
    ELSE s

\* is_subset without the test for equal cell sets
IsSubsetOrEqual(s, other) == s.cells \subseteq other.cells

\* Sentence.is_subset
IsSubset(s, other) == s.cells # other.cells /\ s.cells \subseteq other.cells

\* infer_new_sentance keeping the count of other_sentence
InferNewSentanceKeepCount(s, other) ==
    [cells |-> other.cells \ s.cells, count |-> other.count]

\* Sentence.infer_new_sentance
InferNewSentance(s, other) ==
    Sentence(other.cells \ s.cells, other.count - s.count)

----------------------------------------------------------------------------
(* class MinesweeperAI.  The operators below work on a record              *)
(* kb = [knowledge, safes, mines], the part of the object the inference    *)
(* touches.                                                                *)

KB == [knowledge |-> knowledge, safes |-> safes, mines |-> mines]

\* MinesweeperAI.mark_mine
AIMarkMine(kb, cell) ==
    [kb EXCEPT !.mines = @ \cup {cell},
               !.knowledge = [i \in DOMAIN @ |-> SentenceMarkMine(@[i], cell)]]

\* MinesweeperAI.mark_safe
AIMarkSafe(kb, cell) ==
    [kb EXCEPT !.safes = @ \cup {cell},
               !.knowledge = [i \in DOMAIN @ |-> SentenceMarkSafe(@[i], cell)]]

\* "for cell in <set>: self.mark_mine(cell)" (the result does not depend on
\* the order in which the set is walked)
RECURSIVE AIMarkMines(_, _)
AIMarkMines(kb, cells) ==
    IF cells = {} THEN kb
    ELSE LET c == CHOOSE x \in cells : TRUE
         IN  AIMarkMines(AIMarkMine(kb, c), cells \ {c})

\* "for cell in <set>: self.mark_safe(cell)"
RECURSIVE AIMarkSafes(_, _)
AIMarkSafes(kb, cells) ==
    IF cells = {} THEN kb
    ELSE LET c == CHOOSE x \in cells : TRUE
         IN  AIMarkSafes(AIMarkSafe(kb, c), cells \ {c})

\* "for mine in self.mines: new_sentence.mark_mine(mine)"
RECURSIVE SentenceMarkMines(_, _)
SentenceMarkMines(s, cells) ==
    IF cells = {} THEN s
    ELSE LET c == CHOOSE x \in cells : TRUE
         IN  SentenceMarkMines(SentenceMarkMine(s, c), cells \ {c})

\* "for safe in self.safes: new_sentence.mark_safe(safe)"
RECURSIVE SentenceMarkSafes(_, _)
SentenceMarkSafes(s, cells) ==
    IF cells = {} THEN s
    ELSE LET c == CHOOSE x \in cells : TRUE
         IN  SentenceMarkSafes(SentenceMarkSafe(s, c), cells \ {c})

\* neibouring_cells without the clipping to the board
NeibouringCellsUnclipped(cell) ==
    {c \in Range(cell[1] - 1, cell[1] + 2) \X Range(cell[2] - 1, cell[2] + 2) : c # cell}

\* The cells add_knowledge collects in neibouring_cells
NeibouringCells(cell) ==
    {c \in Range(Max(0, cell[1] - 1), Min(cell[1] + 2, height))
           \X Range(Max(0, cell[2] - 1), Min(cell[2] + 2, width)) : c # cell}

\* the new sentence without the marks of the known mines and safes
NewSentenceUnmarked(cell, count, kb) == Sentence(NeibouringCells(cell), count)

\* The sentence add_knowledge appends: Sentence(neibouring_cells, count),
\* then marked with every known mine and every known safe
NewSentence(cell, count, kb) ==
    SentenceMarkSafes(
        SentenceMarkMines(Sentence(NeibouringCells(cell), count), kb.mines),
        kb.safes)

\* list.remove(x): drop the first entry equal to x
RECURSIVE ListRemove(_, _)
ListRemove(list, x) ==
    IF list = <<>> THEN <<>>
    ELSE IF Head(list) = x THEN Tail(list)
    ELSE <<Head(list)>> \o ListRemove(Tail(list), x)

\* The inner loop "for sentence_2 in self.knowledge.copy()" for one
\* sentence_1 (s1); copy is the copy being walked, k the list being changed
RECURSIVE SubsetInner(_, _, _, _)
SubsetInner(k, s1, copy, j) ==
    IF j > Len(copy) THEN k
    ELSE IF IsSubset(s1, copy[j])
         THEN SubsetInner(
                  ListRemove(Append(k, InferNewSentance(s1, copy[j])), copy[j]),
                  s1, copy, j + 1)
         ELSE SubsetInner(k, s1, copy, j + 1)

\* The outer loop "for sentence_1 in self.knowledge.copy()": the inner copy
\* is taken anew for every sentence_1
RECURSIVE SubsetOuter(_, _, _)
SubsetOuter(k, copy, i) ==
    IF i > Len(copy) THEN k
    ELSE SubsetOuter(SubsetInner(k, copy[i], k, 1), copy, i + 1)

\* Lines 242-247 of add_knowledge
Subsetting(k) == SubsetOuter(k, k, 1)

\* Lines 250-254 of add_knowledge: "for sentence in self.knowledge", the
\* sentences being changed in place by the marks
RECURSIVE MarkLoop(_, _)
MarkLoop(kb, i) ==
    IF i > Len(kb.knowledge) THEN kb
    ELSE LET kb1 == AIMarkSafes(kb, KnownSafes(kb.knowledge[i]))
             kb2 == AIMarkMines(kb1, KnownMines(kb1.knowledge[i]))
         IN  MarkLoop(kb2, i + 1)

Marking(kb) == MarkLoop(kb, 1)

\* Lines 257-259 of add_knowledge: "for sentence in self.knowledge: if
\* sentence.cells == set(): self.knowledge.remove(sentence)".  The list is
\* walked by index while entries are removed from it.
RECURSIVE RemoveEmpty(_, _)
RemoveEmpty(k, i) ==
    IF i > Len(k) THEN k
    ELSE IF k[i].cells = {} THEN RemoveEmpty(ListRemove(k, k[i]), i + 1)
    ELSE RemoveEmpty(k, i + 1)

\* the body without its removal of empty sentences
CleaningNothing(k) == k

Cleaning(k) == RemoveEmpty(k, 1)

\* MinesweeperAI.inference_1: truthy iff some pair is a subset pair
Inference1(k) ==
    {p \in (DOMAIN k) \X (DOMAIN k) : IsSubset(k[p[1]], k[p[2]])}

\* MinesweeperAI.inference_2
Inference2(k) == SelectSeq(k, LAMBDA s : KnownSafes(s) # {})

\* MinesweeperAI.inference_3
Inference3(k) == SelectSeq(k, LAMBDA s : KnownMines(s) # {})

\* The condition of the while loop of add_knowledge
WhileCondition(k) ==
    Inference1(k) # {} \/ Inference2(k) # <<>> \/ Inference3(k) # <<>>

\* make_safe_move without the test for moves already made
SafeMovesMadeOrNot == {move \in safes : move \notin mines}

\* The cells make_safe_move may return: the first cell of self.safes, in the
\* set's iteration order, that passes the test
SafeMoves == {move \in safes : move \notin moves_made /\ move \notin mines}


----------------------------------------------------------------------------
(* Measures of the knowledge base, taken at the start of each pass *)

RECURSIVE TotalCells(_)
TotalCells(k) ==
    IF k = <<>> THEN 0 ELSE Cardinality(Head(k).cells) + TotalCells(Tail(k))

Measures(kb) ==
    [unmarked  |-> Cardinality(AllCells \ (kb.safes \cup kb.mines)),
     marked    |-> kb.safes \cup kb.mines,
     total     |-> TotalCells(kb.knowledge),
     sentences |-> Len(kb.knowledge)]

NoMeasures == [unmarked |-> 0, marked |-> {}, total |-> 0, sentences |-> 0]

----------------------------------------------------------------------------
(* Steps of add_knowledge *)

\* add_knowledge up to the while loop (lines 213-231)
AddKnowledge(cell, count) ==
    /\ pc = "idle"
    /\ LET kb == AIMarkSafe(KB, cell)
       IN  /\ moves_made' = moves_made \cup {cell}
           /\ safes' = kb.safes
           /\ mines' = kb.mines
           /\ knowledge' = Append(kb.knowledge, NewSentence(cell, count, kb))
    /\ pc' = "appended"
    /\ last_call' = Call("add_knowledge", cell, count)
    /\ UNCHANGED <<ret, pass_start, returned>>
    /\ UNCHANGED <<gridVars, tttVars, senVars>>

AtWhile == pc \in {"appended", "while"}

\* The loop condition holds: the subsetting loop of the body (lines 242-247)
WhileBody ==
    /\ AtWhile
    /\ WhileCondition(knowledge)
    /\ pass_start' = Measures(KB)
    /\ knowledge' = Subsetting(knowledge)
    /\ pc' = "mark"
    /\ UNCHANGED <<moves_made, mines, safes, last_call, ret, calls, returned>>
    /\ UNCHANGED <<gridVars, tttVars, senVars>>

\* The marking loop of the body (lines 250-254)
MarkKnown ==
    /\ pc = "mark"
    /\ LET kb == Marking(KB)
       IN  /\ knowledge' = kb.knowledge
           /\ safes' = kb.safes
           /\ mines' = kb.mines
    /\ pc' = "clean"
    /\ UNCHANGED <<moves_made, last_call, ret, calls, pass_start, returned>>
    /\ UNCHANGED <<gridVars, tttVars, senVars>>

\* The removal of empty sentences (lines 257-259), back to the loop test
RemoveEmptySentences ==
    /\ pc = "clean"
    /\ knowledge' = Cleaning(knowledge)
    /\ pc' = "while"
    /\ UNCHANGED <<moves_made, mines, safes, last_call, ret, calls, pass_start, returned>>
    /\ UNCHANGED <<gridVars, tttVars, senVars>>

\* The loop condition fails: add_knowledge returns
WhileExit ==
    /\ AtWhile
    /\ ~WhileCondition(knowledge)
    /\ pc' = "idle"
    /\ pass_start' = NoMeasures
    /\ UNCHANGED <<kbVars, last_call, ret, calls, returned>>
    /\ UNCHANGED <<gridVars, tttVars, senVars>>

InferenceStep == WhileBody \/ MarkKnown \/ RemoveEmptySentences \/ WhileExit

----------------------------------------------------------------------------
(* The AI driven through its public methods, with any arguments *)

CallAddKnowledge ==
    /\ calls < MaxCalls
    /\ \E cell \in AllCells, count \in 0 .. MaxCount : AddKnowledge(cell, count)
    /\ calls' = calls + 1

CallMarkMine ==
    /\ pc = "idle"
    /\ calls < MaxCalls
    /\ \E cell \in AllCells :
          LET kb == AIMarkMine(KB, cell)
          IN  /\ mines' = kb.mines
              /\ knowledge' = kb.knowledge
              /\ last_call' = Call("mark_mine", cell, 0)
    /\ calls' = calls + 1
    /\ UNCHANGED <<moves_made, safes, pc, ret, pass_start, returned>>
    /\ UNCHANGED <<gridVars, tttVars, senVars>>

CallMarkSafe ==
    /\ pc = "idle"
    /\ calls < MaxCalls
    /\ \E cell \in AllCells :
          LET kb == AIMarkSafe(KB, cell)
          IN  /\ safes' = kb.safes
              /\ knowledge' = kb.knowledge
              /\ last_call' = Call("mark_safe", cell, 0)
    /\ calls' = calls + 1
    /\ UNCHANGED <<moves_made, mines, pc, ret, pass_start, returned>>
    /\ UNCHANGED <<gridVars, tttVars, senVars>>

\* MinesweeperAI.make_safe_move
MakeSafeMove ==
    /\ pc = "idle"
    /\ \/ \E move \in SafeMoves : ret' = move
       \/ SafeMoves = {} /\ ret' = NoMove
    /\ last_call' = Call("make_safe_move", NoCell, 0)
    /\ UNCHANGED <<kbVars, pc, calls, pass_start>>
    /\ UNCHANGED <<gridVars, tttVars, senVars>>

CallMakeSafeMove == MakeSafeMove /\ UNCHANGED returned

\* MinesweeperAI.__init__
InitAI ==
    /\ moves_made = {}
    /\ mines = {}
    /\ safes = {}
    /\ knowledge = <<>>
    /\ pc = "idle"
    /\ last_call = Call("__init__", NoCell, 0)
    /\ ret = NoMove
    /\ calls = 0
    /\ pass_start = NoMeasures
    /\ returned = <<>>

\* The variables of the other programs, at rest
InitRest ==
    /\ board = <<>>
    /\ sentence_1 = Sentence({}, 0)
    /\ sentence_2 = Sentence({}, 0)
    /\ new_sentence = <<>>
    /\ is_subset = <<>>

Init ==
    /\ height = Height
    /\ width = Width
    /\ game_mines = {}
    /\ InitAI
    /\ InitRest

Next ==
    \/ CallAddKnowledge
    \/ CallMarkMine
    \/ CallMarkSafe
    \/ CallMakeSafeMove
    \/ InferenceStep

Spec == Init /\ [][Next]_vars

----------------------------------------------------------------------------
(* The AI fed by a Minesweeper game: every observation is of a cell that   *)
(* is no mine, with the game's own count for it.                           *)

\* Minesweeper.__init__: some layout of mines
InitGame ==
    /\ height = Height
    /\ width = Width
    /\ game_mines \in {m \in SUBSET (Range(0, Height) \X Range(0, Width)) :
                          Cardinality(m) <= MaxMines}
    /\ InitAI
    /\ InitRest

Reveal ==
    /\ calls < MaxObs
    /\ \E cell \in AllCells :
          /\ cell \notin game_mines
          /\ AddKnowledge(cell, NearbyMines(cell))
    /\ calls' = calls + 1

NextGame == Reveal \/ InferenceStep

SpecGame == InitGame /\ [][NextGame]_vars

\* The loop of add_knowledge is run by the one thread that called it: a
\* step of it that can be taken is taken.
FairGame == SpecGame /\ WF_vars(InferenceStep)

----------------------------------------------------------------------------
(* The scenario of one game: a 4 x 4 board whose only mine is at (3, 3).   *)
(* The driver reveals (0, 0) and from then on reveals whatever cell        *)
(* make_safe_move returns, until it returns None.                          *)

ScenarioMines == {<<3, 3>>}

InitScenario ==
    /\ height = 4
    /\ width = 4
    /\ game_mines = ScenarioMines
    /\ moves_made = {}
    /\ mines = {}
    /\ safes = {}
    /\ knowledge = <<>>
    /\ pc = "idle"
    /\ last_call = Call("__init__", NoCell, 0)
    /\ ret = NoMove
    /\ calls = 0
    /\ pass_start = NoMeasures
    /\ returned = [c \in AllCells |-> 0]
    /\ InitRest

FirstReveal ==
    /\ calls = 0
    /\ AddKnowledge(<<0, 0>>, NearbyMines(<<0, 0>>))
    /\ calls' = calls + 1

AskSafeMove ==
    /\ last_call.op = "add_knowledge"
    /\ MakeSafeMove
    /\ returned' = IF ret' = NoMove THEN returned
                   ELSE [returned EXCEPT ![ret'] = @ + 1]

RevealReturned ==
    /\ last_call.op = "make_safe_move"
    /\ ret # NoMove
    /\ AddKnowledge(ret, NearbyMines(ret))
    /\ calls' = calls + 1

NextScenario == FirstReveal \/ AskSafeMove \/ RevealReturned \/ InferenceStep

SpecScenario == InitScenario /\ [][NextScenario]_vars

\* The driver is one thread that goes on until make_safe_move returns None.
FairScenario == SpecScenario /\ WF_vars(NextScenario)

----------------------------------------------------------------------------
(* Two Sentence objects and what is_subset and infer_new_sentance make of  *)
(* them.                                                                   *)

SentenceCells == {<<0, j>> : j \in Range(0, MaxSentenceCells)}

Sentences ==
    {Sentence(cells, count) : cells \in SUBSET SentenceCells, count \in 0 .. MaxSentenceCount}

InitSentences ==
    /\ height = 1
    /\ width = MaxSentenceCells
    /\ game_mines = {}
    /\ InitAI
    /\ board = <<>>
    /\ sentence_1 \in Sentences
    /\ sentence_2 \in Sentences
    /\ new_sentence = <<>>
    /\ is_subset = <<>>

\* sentence_1.is_subset(sentence_2) and sentence_1.infer_new_sentance(sentence_2),
\* neither of which assigns to a field of the two
Resolve ==
    /\ is_subset = <<>>
    /\ is_subset' = <<IsSubset(sentence_1, sentence_2)>>
    /\ new_sentence' = <<InferNewSentance(sentence_1, sentence_2)>>
    /\ UNCHANGED <<sentence_1, sentence_2>>
    /\ UNCHANGED <<gridVars, kbVars, callVars, tttVars>>

NextSentences == Resolve

SpecSentences == InitSentences /\ [][NextSentences]_vars

----------------------------------------------------------------------------
(* tictactoe.py.  A board is a list of three rows of three cells, rows and *)
(* columns counted from 0; EMPTY is None.                                  *)

X == "X"

O == "O"

EMPTY == None

\* initial_state
InitialState == [i \in 0 .. 2 |-> [j \in 0 .. 2 |-> EMPTY]]

\* "all(col == row[0] for col in row)"
RowAllEqual(b, i) == \A j \in 0 .. 2 : b[i][j] = b[i][0]

\* winner: the first test that succeeds decides what is returned
Winner(b) ==
    IF \E i \in 0 .. 2 : RowAllEqual(b, i)
    THEN LET i == CHOOSE r \in 0 .. 2 :
                     RowAllEqual(b, r) /\ \A q \in 0 .. 2 : q < r => ~RowAllEqual(b, q)
         IN  b[i][0]
    ELSE IF b[0][0] = b[1][0] /\ b[1][0] = b[2][0] THEN b[0][0]
    ELSE IF b[0][1] = b[1][1] /\ b[1][1] = b[2][1] THEN b[0][1]
    ELSE IF b[0][2] = b[1][2] /\ b[1][2] = b[2][2] THEN b[0][2]
    ELSE IF b[0][0] = b[1][1] /\ b[1][1] = b[2][2] THEN b[0][0]
    ELSE IF b[0][2] = b[1][1] /\ b[1][1] = b[2][0] THEN b[0][2]
    ELSE None

\* terminal
Terminal(b) ==
    IF Winner(b) # None THEN TRUE
    ELSE ~ \E i \in 0 .. 2, j \in 0 .. 2 : b[i][j] = EMPTY

\* utility
Utility(b) ==
    IF Winner(b) = X THEN 1 ELSE IF Winner(b) = O THEN -1 ELSE 0

\* player
Player(b) ==
    LET X_count == Cardinality({c \in (0 .. 2) \X (0 .. 2) : b[c[1]][c[2]] = X})
        O_count == Cardinality({c \in (0 .. 2) \X (0 .. 2) : b[c[1]][c[2]] = O})
    IN  IF Terminal(b) THEN None
        ELSE IF X_count = O_count THEN X
        ELSE O

\* actions
Actions(b) == {c \in (0 .. 2) \X (0 .. 2) : b[c[1]][c[2]] = EMPTY}

\* result: an action that is not among actions(board) leaves the copy as it is
Result(b, action) ==
    IF action \notin Actions(b) THEN b
    ELSE [b EXCEPT ![action[1]][action[2]] = Player(b)]

InitTicTacToe ==
    /\ height = 3
    /\ width = 3
    /\ game_mines = {}
    /\ InitAI
    /\ board = InitialState
    /\ sentence_1 = Sentence({}, 0)
    /\ sentence_2 = Sentence({}, 0)
    /\ new_sentence = <<>>
    /\ is_subset = <<>>

\* One legal move: board = result(board, action) for an action of actions(board)
Move ==
    /\ \E action \in Actions(board) : board' = Result(board, action)
    /\ UNCHANGED <<gridVars, kbVars, callVars, senVars>>

NextTicTacToe == Move

SpecTicTacToe == InitTicTacToe /\ [][NextTicTacToe]_vars

----------------------------------------------------------------------------
(* Claims *)

\* What a sentence says is true of the game's mines
TrueOfGame(s) == s.count = Cardinality(s.cells \cap game_mines)

\* C1: soundness.  With observations of cells that are no mines, each with the
\* game's own count, in every state reached (the states between the loops of
\* the body of the while loop included) every sentence of knowledge has
\* exactly count mines among its cells, every cell of mines is a mine and no
\* cell of safes is one.
C1_Soundness ==
    /\ \A i \in DOMAIN knowledge : TrueOfGame(knowledge[i])
    /\ mines \subseteq game_mines
    /\ safes \cap game_mines = {}

\* Inside the loop, after a subset inference and the marking of a mine that
\* was never observed
C1_Witness ==
    /\ pc = "clean"
    /\ pass_start.total > TotalCells(knowledge)
    /\ mines # {}
    /\ Cardinality(safes) > Cardinality(moves_made)
    /\ calls >= 2

\* C2: once a cell is in safes it never leaves safes and never enters mines,
\* once a cell is in mines it never leaves mines and never enters safes, and
\* the two sets are disjoint in every state, whatever calls are made: the
\* mark that conflicts is rejected and not applied.
C2_SafesAndMinesExclusive ==
    [][/\ safes \subseteq safes'
       /\ mines \subseteq mines'
       /\ safes \cap mines' = {}
       /\ mines \cap safes' = {}
       /\ safes' \cap mines' = {}]_vars

\* a < b in the order of (unmarked cells, cells in sentences, sentences),
\* the first component weighing most
RankLess(a, b) ==
    \/ a.unmarked < b.unmarked
    \/ a.unmarked = b.unmarked /\ a.total < b.total
    \/ a.unmarked = b.unmarked /\ a.total = b.total /\ a.sentences < b.sentences

\* C3: termination.  Fed with the game's observations, the while loop of
\* add_knowledge is left after finitely many passes: every pass ends with
\* the triple (unmarked cells, cells in sentences, sentences), three natural
\* numbers, smaller than the pass found it.  (The loops inside a pass are
\* for loops over finite lists and sets.)
C3_EveryPassLowersRank ==
    pc = "while" => RankLess(Measures(KB), pass_start)

\* The loop test after a pass that marked nothing and inferred nothing from
\* a non-empty sentence, but removed an empty one
C3_Witness ==
    /\ pc = "while"
    /\ pass_start.unmarked = Measures(KB).unmarked
    /\ pass_start.total = Measures(KB).total
    /\ pass_start.sentences > Measures(KB).sentences
    /\ knowledge # <<>>

\* The neighbours of a cell on the board
Neighbours(cell) ==
    {c \in AllCells : /\ c # cell
                      /\ c[1] - cell[1] \in -1 .. 1
                      /\ c[2] - cell[2] \in -1 .. 1}

NonMineCells == AllCells \ game_mines

\* The driver has been told that there is no safe move left
ScenarioOver == pc = "idle" /\ last_call.op = "make_safe_move" /\ ret = NoMove

\* C4: the 4 x 4 game with its one mine at (3, 3).  After add_knowledge((0, 0), 0)
\* every neighbour of (0, 0) is in safes.  The driver that goes on revealing
\* the cell make_safe_move returns stops only when make_safe_move returns
\* None, which it does after at most 15 reveals (each reveal is of a new
\* cell, every pass of the while loop lowers the rank of C3);
\* make_safe_move never returns a cell of
\* moves_made nor a cell twice; and when it returns None, (3, 3) is in mines,
\* was never in moves_made, and each of the 14 cells that are neither the
\* mine nor (0, 0) has been returned exactly once.
C4_Scenario ==
    /\ <<3, 3>> \notin moves_made
    /\ (pc = "idle" /\ calls >= 1) => Neighbours(<<0, 0>>) \subseteq safes
    /\ \A c \in AllCells : returned[c] <= 1
    /\ (last_call.op = "make_safe_move" /\ ret # NoMove) =>
           (ret \in NonMineCells /\ (pc = "idle" => ret \notin moves_made))
    /\ calls = Cardinality(moves_made)
    /\ moves_made \subseteq NonMineCells
    /\ pc = "while" => RankLess(Measures(KB), pass_start)
    /\ \/ ScenarioOver
       \/ pc # "idle"
       \/ calls = 0
       \/ last_call.op = "add_knowledge"
       \/ last_call.op = "make_safe_move" /\ ret # NoMove
    /\ ScenarioOver =>
           /\ <<3, 3>> \in mines
           /\ {c \in AllCells : returned[c] = 1} = NonMineCells \ {<<0, 0>>}
           /\ moves_made = NonMineCells

C4_Witness ==
    /\ ScenarioOver
    /\ <<3, 3>> \in mines
    /\ Cardinality(moves_made) = 15
    /\ Cardinality({c \in AllCells : returned[c] = 1}) = 14

\* C5: make_safe_move returns a cell of safes that is not in moves_made
\* whenever there is one, returns None exactly when there is none, and
\* leaves moves_made, safes, mines and knowledge as they are.
C5_SafeMoveContract ==
    [][(pc = "idle" /\ pc' = "idle" /\ last_call'.op = "make_safe_move") =>
          /\ safes \ moves_made # {} => ret' \in safes \ moves_made
          /\ ret' = NoMove <=> safes \ moves_made = {}
          /\ UNCHANGED kbVars]_vars

\* C6: invalid counts are rejected, by Sentence and by add_knowledge, so
\* that no sentence with count < 0 or count > |cells| is ever held in
\* knowledge.
C6_CountsWithinBounds ==
    \A i \in DOMAIN knowledge :
        0 <= knowledge[i].count /\ knowledge[i].count <= Cardinality(knowledge[i].cells)

\* C7: A.is_subset(B) is true iff the cells of A are a proper subset of the
\* cells of B (false when the two sets are equal); whenever it is true,
\* A.infer_new_sentance(B) is the sentence of B.cells minus A.cells with
\* count B.count minus A.count; and neither call changes A or B.
C7_SubsetResolution ==
    /\ [](is_subset # <<>> =>
            /\ is_subset[1] <=>
                  /\ \A c \in sentence_1.cells : c \in sentence_2.cells
                  /\ \E c \in sentence_2.cells : c \notin sentence_1.cells
            /\ sentence_1.cells = sentence_2.cells => ~is_subset[1]
            /\ is_subset[1] =>
                  /\ new_sentence[1].cells =
                         {c \in sentence_2.cells : c \notin sentence_1.cells}
                  /\ new_sentence[1].count + sentence_1.count = sentence_2.count)
    /\ [][sentence_1' = sentence_1 /\ sentence_2' = sentence_2]_vars

\* A = ({a, b, c}, 1) and B = ({a, b, c, d, e}, 2) give ({d, e}, 1)
C7_Witness ==
    /\ sentence_1 = Sentence({<<0, 0>>, <<0, 1>>, <<0, 2>>}, 1)
    /\ sentence_2 = Sentence({<<0, 0>>, <<0, 1>>, <<0, 2>>, <<0, 3>>, <<0, 4>>}, 2)
    /\ is_subset = <<TRUE>>
    /\ new_sentence = <<Sentence({<<0, 3>>, <<0, 4>>}, 1)>>

\* C8: in every state of the knowledge base and for every cell, mark_safe
\* called twice leaves safes, mines and every sentence of knowledge as
\* mark_safe called once leaves them, and so for mark_mine (neither touches
\* moves_made).
C8_MarkingIdempotent ==
    \A cell \in AllCells :
        /\ AIMarkSafe(AIMarkSafe(KB, cell), cell) = AIMarkSafe(KB, cell)
        /\ AIMarkMine(AIMarkMine(KB, cell), cell) = AIMarkMine(KB, cell)

\* mark_mine has just taken a cell out of a sentence and lowered its count
\* to 0 (only a mark from outside add_knowledge leaves such a sentence), and
\* a cell of a sentence is there to be marked
C8_Witness ==
    /\ pc = "idle"
    /\ last_call.op = "mark_mine"
    /\ last_call.cell \in mines
    /\ \E i \in DOMAIN knowledge :
          /\ knowledge[i].count = 0
          /\ knowledge[i].cells # {}
          /\ last_call.cell \notin knowledge[i].cells

\* The rows, columns and diagonals of the board
Lines ==
    {{<<i, j>> : j \in 0 .. 2} : i \in 0 .. 2}
    \cup {{<<i, j>> : i \in 0 .. 2} : j \in 0 .. 2}
    \cup {{<<0, 0>>, <<1, 1>>, <<2, 2>>}, {<<0, 2>>, <<1, 1>>, <<2, 0>>}}

HasLine(b, p) == \E line \in Lines : \A c \in line : b[c[1]][c[2]] = p

\* C9: on every board reached from initial_state() by legal moves, winner
\* returns X (O) whenever X (O) holds all three cells of a row, column or
\* diagonal, and returns None only when neither does.
C9_WinnerFindsLine ==
    /\ HasLine(board, X) => Winner(board) = X
    /\ HasLine(board, O) => Winner(board) = O
    /\ Winner(board) = None => ~HasLine(board, X) /\ ~HasLine(board, O)

\* C10: add_knowledge(cell, count) puts cell into moves_made and safes, and
\* the sentence it appends has for cells the neighbours of cell on the board
\* that are in neither safes nor mines, and for count the given count less
\* the number of neighbours of cell that are in mines.
C10_NewSentence ==
    pc = "appended" =>
        LET cell == last_call.cell
            appended == knowledge[Len(knowledge)]
        IN  /\ cell \in moves_made
            /\ cell \in safes
            /\ appended.cells = Neighbours(cell) \ (safes \cup mines)
            /\ appended.count =
                   last_call.count - Cardinality(Neighbours(cell) \cap mines)

\* A sentence appended for a cell on the edge of the board with a neighbour
\* in mines and neighbours that are in neither set
C10_Witness ==
    /\ pc = "appended"
    /\ Neighbours(last_call.cell) \cap mines # {}
    /\ knowledge[Len(knowledge)].cells # {}
    /\ knowledge[Len(knowledge)].count < last_call.count
    /\ Cardinality(Neighbours(last_call.cell)) < 8

\* add_knowledge has returned
AddKnowledgeReturned == pc = "idle" /\ last_call.op = "add_knowledge"

\* C11: whenever add_knowledge returns, no sentence of knowledge has an
\* empty set of cells: an observation whose neighbours are all in safes or
\* mines appends nothing, and every sentence emptied inside the loop is removed.
C11_NoEmptySentence ==
    AddKnowledgeReturned => \A i \in DOMAIN knowledge : knowledge[i].cells # {}

\* C12: whenever add_knowledge returns, no two entries of knowledge are equal
\* (same cells and same count).
C12_NoDuplicateSentences ==
    AddKnowledgeReturned =>
        \A i, j \in DOMAIN knowledge : knowledge[i] = knowledge[j] => i = j

\* C13: every pass of the body of the while loop either puts into safes or
\* mines a cell that was in neither when the pass began, or ends with the sum
\* of |cells| over the sentences of knowledge smaller than it began.
C13_PassMarksOrShrinks ==
    pc = "while" =>
        \/ (safes \cup mines) \ pass_start.marked # {}
        \/ TotalCells(knowledge) < pass_start.total

\* C14: whenever add_knowledge returns, no sentence of knowledge holds a cell
\* of safes or of mines; the same is so in every state between the steps of
\* add_knowledge and after every call of mark_mine and mark_safe.
C14_MarkedCellsPropagated ==
    \A i \in DOMAIN knowledge : knowledge[i].cells \cap (safes \cup mines) = {}

\* add_knowledge has returned; the sentence it appended had lost cells to
\* safes or mines, a cell was marked that no call observed, and a sentence
\* with cells is still held
C14_Witness ==
    /\ AddKnowledgeReturned
    /\ calls >= 2
    /\ \E i \in DOMAIN knowledge : knowledge[i].cells # {}
    /\ Neighbours(last_call.cell) \cap (safes \cup mines) # {}
    /\ Cardinality(safes \cup mines) > Cardinality(moves_made)

====
